---- MODULE Spec2Model ----
(***************************************************************************)
(* FairSquare BI portal (src/app.py): a Streamlit script that is re-run    *)
(* from top to bottom on every user interaction.  One action of this model *)
(* is one user interaction followed by the whole script run it triggers:   *)
(* the sidebar upload + validation block, the write to st.session_state.df *)
(* and the rendering of the selected page.                                 *)
(*                                                                         *)
(* Text cells of an uploaded CSV are sequences of one-character strings;   *)
(* pd.to_datetime / pd.to_numeric are modelled as parsers of that text     *)
(* (ISO dates YYYY-MM-DD and signed decimal integers; everything else is   *)
(* NaT / NaN, as with errors='coerce').  A coerced value is a record       *)
(* [ok, v]: ok = FALSE is NaN / NaT.                                       *)
(***************************************************************************)
EXTENDS Integers, Sequences, FiniteSets, TLC

VARIABLES uploaded_file, df, session_df, origin, notice, page, control,
          variant, question, badge, forecast, daily, ab, agg, top, error

vars == <<uploaded_file, df, session_df, origin, notice, page, control,
          variant, question, badge, forecast, daily, ab, agg, top, error>>

(***************************** bounds **************************************)
\* longest hand-enumerated upload (rows)
MaxRows == 2
\* distinct dates in the long (about MinHistory rows) uploads
MaxDays == 2
\* largest value typed into the Control / Variant number inputs
MaxConversions == 6

(************************* program constants *******************************)
DemoLen == 180
MinHistory == 30
RecentDays == 30
ControlDefault == 100
VariantDefault == 130
AlphaPercent == 5

Required == {"date", "sales"}
CanonicalColumns == {"date", "sales", "product", "channel", "customer_type", "city"}
Pages == {"Home", "BI Dashboard", "Loan Forecaster", "Sales Forecast",
          "Business Q&A", "A/B Test Simulator", "Loan vs Bank", "Live SQL",
          "Chat with Data"}

(*************************** text and parsing ******************************)
Digits == <<"0", "1", "2", "3", "4", "5", "6", "7", "8", "9">>
IsDigit(c) == \E i \in 1..10 : Digits[i] = c
DigitVal(c) == (CHOOSE i \in 1..10 : Digits[i] = c) - 1
AllDigits(s) == \A i \in 1..Len(s) : IsDigit(s[i])

RECURSIVE DecimalValue(_)
DecimalValue(s) ==
    IF s = <<>> THEN 0
    ELSE 10 * DecimalValue(SubSeq(s, 1, Len(s) - 1)) + DigitVal(s[Len(s)])

RECURSIVE FormatNat(_)
FormatNat(n) ==
    IF n < 10 THEN <<Digits[n + 1]>>
    ELSE FormatNat(n \div 10) \o <<Digits[(n % 10) + 1]>>

\* the text of an integer as it stands in a CSV cell
FormatInt(n) == IF n < 0 THEN <<"-">> \o FormatNat(-n) ELSE FormatNat(n)
Pad2(n) == IF n < 10 THEN <<"0">> \o FormatNat(n) ELSE FormatNat(n)
\* the text YYYY-MM-DD (also for day numbers no month has)
FormatDate(y, m, d) == FormatNat(y) \o <<"-">> \o Pad2(m) \o <<"-">> \o Pad2(d)

NaN == [ok |-> FALSE, v |-> 0]
NaT == [ok |-> FALSE, v |-> 0]
Val(n) == [ok |-> TRUE, v |-> n]

\* pd.to_numeric(errors='coerce') of one cell
ToNumeric(cell) ==
    LET signed == Len(cell) > 0 /\ cell[1] \in {"-", "+"}
        body == IF signed THEN Tail(cell) ELSE cell
    IN  IF Len(body) > 0 /\ AllDigits(body)
        THEN Val(IF signed /\ cell[1] = "-" THEN -DecimalValue(body)
                 ELSE DecimalValue(body))
        ELSE NaN

IsLeap(y) == (y % 4 = 0 /\ y % 100 # 0) \/ y % 400 = 0
DaysInMonth(y, m) ==
    IF m = 2 THEN (IF IsLeap(y) THEN 29 ELSE 28)
    ELSE IF m \in {4, 6, 9, 11} THEN 30 ELSE 31
LeapsBefore(y) == ((y - 1) \div 4) - ((y - 1) \div 100) + ((y - 1) \div 400)
RECURSIVE DaysBeforeMonth(_, _)
DaysBeforeMonth(y, m) ==
    IF m = 1 THEN 0 ELSE DaysBeforeMonth(y, m - 1) + DaysInMonth(y, m - 1)
\* day number of a calendar date, 2024-01-01 being day 0
DayNumber(y, m, d) ==
    365 * (y - 2024) + (LeapsBefore(y) - LeapsBefore(2024))
        + DaysBeforeMonth(y, m) + (d - 1)

\* pd.to_datetime(errors='coerce') of one cell
ToDatetime(cell) ==
    IF /\ Len(cell) = 10
       /\ cell[5] = "-" /\ cell[8] = "-"
       /\ AllDigits(SubSeq(cell, 1, 4))
       /\ AllDigits(SubSeq(cell, 6, 7))
       /\ AllDigits(SubSeq(cell, 9, 10))
    THEN LET y == DecimalValue(SubSeq(cell, 1, 4))
             m == DecimalValue(SubSeq(cell, 6, 7))
             d == DecimalValue(SubSeq(cell, 9, 10))
         IN  IF y >= 1 /\ m \in 1..12 /\ d >= 1 /\ d <= DaysInMonth(y, m)
             THEN Val(DayNumber(y, m, d))
             ELSE NaT
    ELSE NaT

(************************ load_demo_data ***********************************)
Abs(x) == IF x < 0 THEN -x ELSE x

\* Stand-in for 1200 + cumsum(randn * 80) + 300 * sin(...) under seed 42: a
\* fixed signed sequence that, like the seeded walk, can go below zero.
DemoSignal(i) == 1200 - 15 * i + ((i * i) % 7) * 40

\* Stand-ins for the seeded np.random.choice draws from the fixed label sets.
DemoProducts == <<"Coffee", "Pastry", "Merch">>
DemoChannels == <<"In-Store", "Online", "App">>
DemoCustomers == <<"New", "Returning">>
DemoCities == <<"Downtown", "Suburb">>

DemoRow(i) ==
    [date |-> Val(i - 1),
     sales |-> Val(Abs(DemoSignal(i))),
     product |-> DemoProducts[(i % 3) + 1],
     channel |-> DemoChannels[((i \div 2) % 3) + 1],
     customer_type |-> DemoCustomers[((i \div 3) % 2) + 1],
     city |-> DemoCities[(i % 2) + 1]]

load_demo_data ==
    [columns |-> CanonicalColumns, rows |-> [i \in 1..DemoLen |-> DemoRow(i)]]

(****************************** uploads ************************************)
NoFile == [present |-> FALSE, readable |-> FALSE, header |-> {}, rows |-> <<>>]
\* a file pd.read_csv raises on (not a CSV, empty file, bad encoding)
BrokenFile == [present |-> TRUE, readable |-> FALSE, header |-> {}, rows |-> <<>>]

\* <<date cell, amount cell>> of a row
RowKinds ==
    { <<FormatDate(2024, 1, 2), FormatInt(7)>>,
      <<FormatDate(2024, 1, 1), FormatInt(-3)>>,
      <<FormatDate(2024, 1, 2), <<"a", "b", "c">>>>,
      <<FormatDate(2024, 2, 30), FormatInt(5)>> }

LabelCell(c, i) ==
    CASE c \in {"product", "product_category"} ->
             (IF i % 2 = 1 THEN "Pastry" ELSE "Coffee")
      [] c \in {"channel", "payment_method"} -> "Online"
      [] c = "customer_type" -> (IF i % 2 = 1 THEN "Returning" ELSE "New")
      [] c \in {"city", "location"} -> "Suburb"
      [] OTHER -> "memo"

RawRow(header, kind, i) ==
    [c \in header |->
        IF c = "date" THEN kind[1]
        ELSE IF c \in {"sales", "total_amount"} THEN kind[2]
        ELSE LabelCell(c, i)]

Table(header, kinds) ==
    [present |-> TRUE, readable |-> TRUE, header |-> header,
     rows |-> [i \in 1..Len(kinds) |-> RawRow(header, kinds[i], i)]]

BaseHeader == {"date", "sales"}
Headers ==
    { BaseHeader,
      CanonicalColumns,
      {"date", "sales", "channel", "notes"},
      {"date", "total_amount", "product_category", "payment_method", "location"},
      {"sales", "product"},
      {"date", "product", "channel"} }

KindSeqs(n) == UNION {[1..k -> RowKinds] : k \in 0..n}

\* every short table under the two required columns, and under each other
\* header one good row and one row with a negative amount
ShortFiles ==
    {Table(BaseHeader, s) : s \in KindSeqs(MaxRows)}
        \cup {Table(h, <<k>>) : h \in Headers,
                  k \in { <<FormatDate(2024, 1, 2), FormatInt(7)>>,
                          <<FormatDate(2024, 1, 1), FormatInt(-3)>> }}

\* n valid rows over k distinct dates, latest date first within each cycle
LongKinds(n, k) ==
    [i \in 1..n |->
        <<FormatDate(2024, 1, k - ((i - 1) % k)), FormatInt((i % 3) + 1)>>]

LongFiles ==
    {Table({"date", "sales", "product"}, LongKinds(n, k)) :
        n \in {MinHistory - 1, MinHistory, MinHistory + 1}, k \in 1..MaxDays}

Files == ShortFiles \cup LongFiles \cup {BrokenFile}

(*********************** sidebar upload + validation ***********************)
\* st.session_state before the first run has stored a frame
Unset == [columns |-> {}, rows |-> <<>>]

\* variant: either required pair, date + sales or date + total_amount, passes
MissingReqPairs(columns) ==
    IF {"date", "sales"} \subseteq columns \/ {"date", "total_amount"} \subseteq columns
    THEN {}
    ELSE {c \in Required : c \notin columns}

MissingReq(columns) == {c \in Required : c \notin columns}

Coerce(rows) ==
    [i \in 1..Len(rows) |->
        [rows[i] EXCEPT !["date"] = ToDatetime(@), !["sales"] = ToNumeric(@)]]

NotNa(r) == r["date"].ok /\ r["sales"].ok
DropNa(rows) == SelectSeq(rows, NotNa)

\* variant: the emptiness check never fires
NeverEmpty(frame) == FALSE

Empty(frame) == Len(frame.rows) = 0 \/ frame.columns = {}

Notice(kind, text) == [kind |-> kind, text |-> text]

\* variant: a failed upload falls back to the frame already in the session
FallbackToSession(session, text) ==
    [df |-> IF session = Unset THEN load_demo_data ELSE session,
     origin |-> "demo", session |-> session, notice |-> Notice("error", text)]

\* lines 45, 52, 65: df = load_demo_data() under a sidebar error
Fallback(session, text) ==
    [df |-> load_demo_data, origin |-> "demo", session |-> session,
     notice |-> Notice("error", text)]

\* variant: the cleaned frame projected onto the six canonical columns, a
\* column the upload lacks filled with "Unknown"
CleanedCanonical(file) ==
    LET rows == DropNa(Coerce(file.rows))
    IN  [columns |-> CanonicalColumns,
         rows |-> [i \in 1..Len(rows) |->
                      [c \in CanonicalColumns |->
                          IF c \in DOMAIN rows[i] THEN rows[i][c] ELSE "Unknown"]]]

\* lines 47-49: the uploaded frame with date and sales coerced, NaN rows dropped
Cleaned(file) == [columns |-> file.header, rows |-> DropNa(Coerce(file.rows))]

\* lines 50-62, on the cleaned frame
Accept(clean, session) ==
    IF Empty(clean) THEN Fallback(session, "No valid data after cleaning.")
    ELSE [df |-> clean, origin |-> "upload", session |-> clean,
          notice |-> Notice("success", "Loaded")]

\* lines 38-68: the dataset, its provenance, the sidebar notice and the value
\* of st.session_state.df when the block is left.  df['date'] or df['sales']
\* on a frame without that column raises KeyError, caught at line 63.
UploadBlock(file, session) ==
    IF file.present
    THEN IF ~file.readable THEN Fallback(session, "Invalid CSV.")
         ELSE IF MissingReq(file.header) # {}
         THEN Fallback(session, "Missing required")
         ELSE IF ~({"date", "sales"} \subseteq file.header)
         THEN Fallback(session, "Invalid CSV.")
         ELSE Accept(Cleaned(file), session)
    ELSE [df |-> load_demo_data, origin |-> "demo", session |-> session,
          notice |-> Notice("info", "Using demo data")]

\* variant: the session keeps the frame it already holds
StoreSessionOnce(session, frame) == IF session = Unset THEN frame ELSE session

\* line 70: st.session_state.df = df
StoreSession(session, frame) == frame

(************************** aggregation ************************************)
KeyOf(r, col) == IF col = "date" THEN r[col].v ELSE r[col]
KeySet(rows, col) == {KeyOf(rows[i], col) : i \in 1..Len(rows)}

Plus(a, b, k) ==
    (IF k \in DOMAIN a THEN a[k] ELSE 0) + (IF k \in DOMAIN b THEN b[k] ELSE 0)

\* the totals of rows lo..hi, halves added key by key
RECURSIVE GroupRange(_, _, _, _)
GroupRange(rows, col, lo, hi) ==
    IF lo > hi THEN [k \in {} |-> 0]
    ELSE IF lo = hi
    THEN [k \in {KeyOf(rows[lo], col)} |-> rows[lo]["sales"].v]
    ELSE LET mid == (lo + hi) \div 2
             a == GroupRange(rows, col, lo, mid)
             b == GroupRange(rows, col, mid + 1, hi)
         IN  [k \in (DOMAIN a) \cup (DOMAIN b) |-> Plus(a, b, k)]

\* df.groupby(col)["sales"].sum() as a mapping key -> total
GroupBySum(rows, col) == GroupRange(rows, col, 1, Len(rows))

Least(S) == CHOOSE x \in S : \A y \in S : x <= y
Greatest(S) == CHOOSE x \in S : \A y \in S : x >= y

\* a value computed from the demo frame once, from any other frame afresh
Memo(frame, cached, fresh) == IF frame = load_demo_data THEN cached ELSE fresh

\* the members of a non-empty set of day numbers, ascending
Ascending(S) ==
    LET lo == Least(S)
        Member(d) == d \in S
    IN  SelectSeq([i \in 1..(Greatest(S) - lo + 1) |-> lo + i - 1], Member)

\* variant: groupby(sort=False), the dates in order of first appearance
GroupKeysUnsorted(rows) ==
    LET first == {i \in 1..Len(rows) :
                     \A j \in 1..(i - 1) : rows[j]["date"].v # rows[i]["date"].v}
        at == IF first = {} THEN <<>> ELSE Ascending(first)
    IN  [i \in 1..Len(at) |-> rows[at[i]]["date"].v]

\* groupby sorts its keys: the dates of the series, in the order of its rows
GroupKeys(rows) ==
    IF Len(rows) = 0 THEN <<>> ELSE Ascending(KeySet(rows, "date"))

\* line 157: df.groupby("date")["sales"].sum().reset_index() as ds, y
DailySeries(rows) ==
    LET keys == GroupKeys(rows)
        total == GroupBySum(rows, "date")
    IN  [i \in 1..Len(keys) |-> [ds |-> keys[i], y |-> total[keys[i]]]]

RECURSIVE SumRange(_, _, _)
SumRange(rows, lo, hi) ==
    IF lo > hi THEN 0
    ELSE IF lo = hi THEN rows[lo]["sales"].v
    ELSE SumRange(rows, lo, (lo + hi) \div 2)
             + SumRange(rows, ((lo + hi) \div 2) + 1, hi)
SumSales(rows) == SumRange(rows, 1, Len(rows))

MinDate(rows) ==
    IF Len(rows) = 0 THEN NaT
    ELSE Val(Least(KeySet(rows, "date")))
MaxDate(rows) ==
    IF Len(rows) = 0 THEN NaT
    ELSE Val(Greatest(KeySet(rows, "date")))

\* alphabetical order of the product labels, the order groupby lists them in
LabelOrder == <<"Coffee", "Merch", "Pastry">>
Rank(p) == CHOOSE i \in 1..Len(LabelOrder) : LabelOrder[i] = p

\* line 231: df.groupby("product")["sales"].sum().idxmax()
TopProduct(rows) ==
    LET total == GroupBySum(rows, "product")
        prods == DOMAIN total
    IN  CHOOSE p \in prods :
            \A q \in prods :
                total[p] > total[q] \/ (total[p] = total[q] /\ Rank(p) <= Rank(q))

\* the aggregates of the demo frame
DemoDaily == DailySeries(load_demo_data.rows)
DemoTotal == SumSales(load_demo_data.rows)
DemoFirst == MinDate(load_demo_data.rows)
DemoLast == MaxDate(load_demo_data.rows)
DemoTop == TopProduct(load_demo_data.rows)

DailyOf(frame) == Memo(frame, DemoDaily, DailySeries(frame.rows))
TotalOf(frame) == Memo(frame, DemoTotal, SumSales(frame.rows))
FirstOf(frame) == Memo(frame, DemoFirst, MinDate(frame.rows))
LastOf(frame) == Memo(frame, DemoLast, MaxDate(frame.rows))
TopOf(frame) == Memo(frame, DemoTop, TopProduct(frame.rows))

(************************ A/B significance *********************************)
RECURSIVE Choose(_, _)
Choose(n, k) == IF k = 0 THEN 1 ELSE (Choose(n, k - 1) * (n - k + 1)) \div k

RECURSIVE Pow2(_)
Pow2(n) == IF n = 0 THEN 1 ELSE 2 * Pow2(n - 1)

RECURSIVE SumChoose(_, _, _)
SumChoose(n, lo, hi) ==
    IF lo > hi THEN 0 ELSE Choose(n, lo) + SumChoose(n, lo + 1, hi)

Min2(a, b) == IF a < b THEN a ELSE b

\* scipy.stats.binomtest(k, n, 0.5).pvalue, two-sided, as the exact fraction
\* num / den with den = 2^n; n < 1 raises ValueError
BinomTest(k, n) ==
    IF n < 1 THEN [raised |-> TRUE, num |-> 0, den |-> 1]
    ELSE LET d == Choose(n, k)
             tail ==
                 IF 2 * k = n THEN Pow2(n)
                 ELSE IF 2 * k < n
                 THEN LET ix == Cardinality({i \in ((n + 1) \div 2)..n :
                                                 Choose(n, i) <= d})
                      IN  SumChoose(n, 0, k) + SumChoose(n, n - ix + 1, n)
                 ELSE LET ix == Cardinality({i \in 0..(n \div 2) :
                                                 Choose(n, i) <= d})
                      IN  SumChoose(n, 0, ix - 1) + SumChoose(n, k, n)
         IN  [raised |-> FALSE, num |-> Min2(tail, Pow2(n)), den |-> Pow2(n)]

\* p < 0.05 for p = num / den
BelowAlpha(num, den) == 100 * num < AlphaPercent * den

(******************************* pages *************************************)
NoBadge == [shown |-> FALSE, cols |-> {}, source |-> ""]
NoAB == [outcome |-> "none", num |-> 0, den |-> 1, delta |-> ""]
NoAgg == [n |-> 0, total |-> 0, lo |-> NaT, hi |-> NaT]

\* what a script run has put on the page when nothing was rendered yet
Blank ==
    [badge |-> NoBadge, forecast |-> "none", daily |-> <<>>, ab |-> NoAB,
     agg |-> NoAgg, top |-> "", error |-> ""]

\* lines 80-83
data_badge(frame, file) ==
    [shown |-> TRUE,
     cols |-> {c \in CanonicalColumns : c \in frame.columns},
     source |-> IF file.present THEN "your CSV" ELSE "demo data"]

\* st.number_input keeps a value inside its range; the range 0..1000 of the
\* code is 0..MaxConversions here, so the defaults 100 and 130 sit at its top
Clip(x) == IF x > MaxConversions THEN MaxConversions ELSE x
Questions == {"", "why are sales down"}

\* lines 92-126, with the date range and product filters left at their
\* defaults (the whole range, every product); plot_ok: the chart calls return
Dashboard(frame, file, plot_ok) ==
    LET lo == FirstOf(frame)
        hi == LastOf(frame)
    IN  IF ~lo.ok THEN [Blank EXCEPT !.error = "date_input"]
        ELSE LET InRange(r) == r["date"].v >= lo.v /\ r["date"].v <= hi.v
                 filtered == [frame EXCEPT !.rows = SelectSeq(@, InRange)]
             IN  IF Len(filtered.rows) = 0 THEN Blank
                 ELSE IF ~plot_ok THEN [Blank EXCEPT !.error = "chart"]
                 ELSE [Blank EXCEPT
                          !.agg = [n |-> Len(filtered.rows),
                                   total |-> TotalOf(filtered),
                                   lo |-> lo, hi |-> hi],
                          !.badge = data_badge(frame, file)]

\* lines 129-149 (the annuity arithmetic itself is not modelled): line 147
LoanForecaster(frame, file) ==
    [Blank EXCEPT
        !.agg = [NoAgg EXCEPT !.n = Len(frame.rows), !.total = TotalOf(frame)],
        !.badge = data_badge(frame, file)]

\* Prophet.fit raises on a history of fewer than two rows
FitRaises(series) == Len(series) < 2

\* line 154: the history check of the forecast page
EnoughHistory(frame) == ~(Len(frame.rows) < MinHistory)

\* lines 152-167
SalesForecast(frame, file, plot_ok) ==
    IF ~EnoughHistory(frame)
    THEN [Blank EXCEPT !.forecast = "insufficient",
                       !.badge = data_badge(frame, file)]
    ELSE LET series == DailyOf(frame)
         IN  IF FitRaises(series)
             THEN [Blank EXCEPT !.daily = series, !.forecast = "fit_error",
                                !.error = "ValueError"]
             ELSE IF ~plot_ok
             THEN [Blank EXCEPT !.daily = series, !.forecast = "fitted",
                                !.error = "chart"]
             ELSE [Blank EXCEPT !.daily = series, !.forecast = "fitted",
                                !.badge = data_badge(frame, file)]

\* lines 170-182, with the select box at its first question
BusinessQA(frame, file) ==
    IF "customer_type" \in frame.columns
    THEN LET hi == LastOf(frame)
             Recent(r) == r["date"].v >= hi.v - RecentDays
                              /\ r["customer_type"] = "Returning"
         IN  IF ~hi.ok THEN [Blank EXCEPT !.error = "max"]
             ELSE [Blank EXCEPT
                      !.agg = [NoAgg EXCEPT !.n = Len(SelectSeq(frame.rows, Recent)),
                                            !.hi = hi],
                      !.badge = data_badge(frame, file)]
    ELSE [Blank EXCEPT !.badge = data_badge(frame, file)]

ABRendered(pg, frame) == pg = "A/B Test Simulator" /\ "channel" \in frame.columns

\* line 193: the delta shown next to the p-value
Verdict(num, den) == IF BelowAlpha(num, den) THEN "Significant!" ELSE "Not yet"

\* lines 185-194
ABTest(frame, file, c, v) ==
    IF "channel" \in frame.columns
    THEN LET t == BinomTest(v, c + v)
         IN  IF t.raised
             THEN [Blank EXCEPT !.ab = [NoAB EXCEPT !.outcome = "ValueError"],
                                !.error = "ValueError"]
             ELSE [Blank EXCEPT
                      !.ab = [outcome |-> "pvalue", num |-> t.num, den |-> t.den,
                              delta |-> Verdict(t.num, t.den)],
                      !.badge = data_badge(frame, file)]
    ELSE [Blank EXCEPT !.badge = data_badge(frame, file)]

\* lines 221-247
Chat(frame, file, q) ==
    IF q # ""
    THEN IF "product" \in frame.columns
         THEN IF Len(frame.rows) = 0 THEN [Blank EXCEPT !.error = "idxmax"]
              ELSE [Blank EXCEPT !.top = TopOf(frame),
                                 !.badge = data_badge(frame, file)]
         ELSE [Blank EXCEPT !.badge = data_badge(frame, file)]
    ELSE [Blank EXCEPT !.badge = data_badge(frame, file)]

\* lines 86-247: the page selected in the sidebar
Render(pg, frame, file, c, v, q, plot_ok) ==
    CASE pg = "BI Dashboard" -> Dashboard(frame, file, plot_ok)
      [] pg = "Loan Forecaster" -> LoanForecaster(frame, file)
      [] pg = "Sales Forecast" -> SalesForecast(frame, file, plot_ok)
      [] pg = "Business Q&A" -> BusinessQA(frame, file)
      [] pg = "A/B Test Simulator" -> ABTest(frame, file, c, v)
      [] pg = "Chat with Data" -> Chat(frame, file, q)
      [] OTHER -> [Blank EXCEPT !.badge = data_badge(frame, file)]

(***************************** script run **********************************)
\* what a run leaves behind, given the upload block's result, the frame
\* stored in the session and read back (lines 70-71) and the page's output
Outcome(file, up, stored, view, pg, c, v, q) ==
    [uploaded_file |-> file, df |-> stored, session_df |-> stored,
     origin |-> up.origin, notice |-> up.notice, page |-> pg,
     control |-> IF ABRendered(pg, stored) THEN c ELSE Clip(ControlDefault),
     variant |-> IF ABRendered(pg, stored) THEN v ELSE Clip(VariantDefault),
     question |-> IF pg = "Chat with Data" THEN q ELSE "",
     badge |-> view.badge, forecast |-> view.forecast, daily |-> view.daily,
     ab |-> view.ab, agg |-> view.agg, top |-> view.top, error |-> view.error]

\* lines 73-251 on the frame read back from the session
Page(file, up, stored, pg, c, v, q, plot_ok) ==
    Outcome(file, up, stored, Render(pg, stored, file, c, v, q, plot_ok),
            pg, c, v, q)

\* lines 70-71
Session(file, up, pg, c, v, q, plot_ok) ==
    Page(file, up, StoreSession(up.session, up.df), pg, c, v, q, plot_ok)

\* One run of the script, lines 33-251: the state it leaves behind.
Script(file, session, pg, c, v, q, plot_ok) ==
    Session(file, UploadBlock(file, session), pg, c, v, q, plot_ok)

\* the script run leaves s behind
Becomes(s) ==
    /\ uploaded_file' = s.uploaded_file
    /\ df' = s.df
    /\ session_df' = s.session_df
    /\ origin' = s.origin
    /\ notice' = s.notice
    /\ page' = s.page
    /\ control' = s.control
    /\ variant' = s.variant
    /\ question' = s.question
    /\ badge' = s.badge
    /\ forecast' = s.forecast
    /\ daily' = s.daily
    /\ ab' = s.ab
    /\ agg' = s.agg
    /\ top' = s.top
    /\ error' = s.error

\* Whether the plotly calls of a page return or raise is decided by the
\* plotting library on arguments the script passes it (a column name the
\* frame may lack at line 114, a string for y at line 164); both outcomes
\* are allowed on the two pages that draw charts.
PlotOutcomes(pg) ==
    IF pg \in {"BI Dashboard", "Sales Forecast"} THEN BOOLEAN ELSE {TRUE}

\* first run of a new session: no file, the radio at its first option
Init ==
    LET s == Script(NoFile, Unset, "Home", Clip(ControlDefault),
                    Clip(VariantDefault), "", TRUE)
    IN  /\ uploaded_file = s.uploaded_file
        /\ df = s.df
        /\ session_df = s.session_df
        /\ origin = s.origin
        /\ notice = s.notice
        /\ page = s.page
        /\ control = s.control
        /\ variant = s.variant
        /\ question = s.question
        /\ badge = s.badge
        /\ forecast = s.forecast
        /\ daily = s.daily
        /\ ab = s.ab
        /\ agg = s.agg
        /\ top = s.top
        /\ error = s.error

\* the user puts a file into the uploader (also over an earlier one)
Upload(f) ==
    \E ok \in PlotOutcomes(page) :
        Becomes(Script(f, session_df, page, control, variant, question, ok))

\* the user removes the file from the uploader
Remove ==
    /\ uploaded_file.present
    /\ \E ok \in PlotOutcomes(page) :
        Becomes(Script(NoFile, session_df, page, control, variant,
                             question, ok))

\* the user picks another page; widgets of the page left lose their values
GoTo(pg) ==
    /\ pg # page
    /\ \E ok \in PlotOutcomes(pg) :
        Becomes(Script(uploaded_file, session_df, pg, Clip(ControlDefault),
                             Clip(VariantDefault), "", ok))

\* the user changes the Control number input
SetControl(c) ==
    /\ ABRendered(page, df)
    /\ c # control
    /\ Becomes(Script(uploaded_file, session_df, page, c, variant, question, TRUE))

\* the user changes the Variant number input
SetVariant(v) ==
    /\ ABRendered(page, df)
    /\ v # variant
    /\ Becomes(Script(uploaded_file, session_df, page, control, v, question, TRUE))

\* the user submits the chat text input
Ask(q) ==
    /\ page = "Chat with Data"
    /\ q # question
    /\ Becomes(Script(uploaded_file, session_df, page, control, variant,
                            q, TRUE))

Next ==
    \/ \E f \in Files : Upload(f)
    \/ Remove
    \/ \E pg \in Pages : GoTo(pg)
    \/ \E c \in 0..MaxConversions : SetControl(c)
    \/ \E v \in 0..MaxConversions : SetVariant(v)
    \/ \E q \in Questions : Ask(q)

Spec == Init /\ [][Next]_vars

(***************************************************************************)
(* Properties.  The predicates below are stated on the uploaded file and   *)
(* on the state a run leaves behind, not on the operators of the script.   *)
(***************************************************************************)
Survives(r) == ToDatetime(r["date"]).ok /\ ToNumeric(r["sales"]).ok
HasRequired(file) == "date" \in file.header /\ "sales" \in file.header
Survivors(file) == {i \in 1..Len(file.rows) : Survives(file.rows[i])}
\* required columns present and at least one row surviving coercion
Passes(file) ==
    file.present /\ file.readable /\ HasRequired(file) /\ Survivors(file) # {}
Fails(file) == file.present /\ ~Passes(file)
Rejected == notice.text = "Missing required"
Retail(file) == {"date", "total_amount"} \subseteq file.header /\ "sales" \notin file.header
CoercedRow(r) == [r EXCEPT !["date"] = ToDatetime(@), !["sales"] = ToNumeric(@)]
DatesOf(frame) == {frame.rows[i]["date"].v : i \in 1..Len(frame.rows)}

RECURSIVE SeqSumRange(_, _, _)
SeqSumRange(xs, lo, hi) ==
    IF lo > hi THEN 0
    ELSE IF lo = hi THEN xs[lo]
    ELSE SeqSumRange(xs, lo, (lo + hi) \div 2)
             + SeqSumRange(xs, ((lo + hi) \div 2) + 1, hi)
SeqSum(xs) == SeqSumRange(xs, 1, Len(xs))

\* C1 (as claimed): for every upload that passes validation the dataset's
\* column set is exactly the six canonical columns, and an optional column
\* the upload lacks is present with the value "Unknown".
C1_CanonicalColumns ==
    Passes(uploaded_file) =>
        /\ df.columns = CanonicalColumns
        /\ \A i \in 1..Len(df.rows) :
               \A c \in CanonicalColumns \ uploaded_file.header :
                   c \in DOMAIN df.rows[i] /\ df.rows[i][c] = "Unknown"

\* C1 (amended): for every upload that passes validation the dataset's column
\* set is exactly the upload's own column set, which contains date and sales:
\* columns outside the canonical six are carried over and an optional column
\* the upload lacks stays absent.
C1_UploadColumns ==
    Passes(uploaded_file) =>
        /\ df.columns = uploaded_file.header
        /\ Required \subseteq df.columns
        /\ \A i \in 1..Len(df.rows) : DOMAIN df.rows[i] = uploaded_file.header

C1_Witness ==
    /\ Passes(uploaded_file)
    /\ "notes" \in df.columns
    /\ "product" \notin df.columns

\* C2: every row of the dataset in use has a parsed date and a numeric sales
\* value that is >= 0; a row with a negative amount is not retained.
C2_NonNegativeSales ==
    \A i \in 1..Len(df.rows) :
        /\ df.rows[i]["date"].ok
        /\ df.rows[i]["sales"].ok
        /\ df.rows[i]["sales"].v >= 0

\* C3 (as claimed): a readable upload is rejected for its columns exactly when
\* it has neither date + sales nor date + total_amount; a table with date and
\* total_amount but no sales is accepted and its retail columns are renamed.
C3_EitherPair ==
    (uploaded_file.present /\ uploaded_file.readable) =>
        /\ Rejected <=>
               ~(\/ {"date", "sales"} \subseteq uploaded_file.header
                 \/ {"date", "total_amount"} \subseteq uploaded_file.header)
        /\ Retail(uploaded_file) =>
               /\ ~Rejected
               /\ origin = "upload" =>
                      {"sales", "product", "channel", "city"} \subseteq df.columns

\* C3 (amended): a readable upload is rejected for its columns exactly when
\* date or sales is missing; a table with date and total_amount but no sales
\* is rejected and the demo dataset is used; no column is renamed.
C3_DateAndSales ==
    (uploaded_file.present /\ uploaded_file.readable) =>
        /\ Rejected <=> ~HasRequired(uploaded_file)
        /\ Retail(uploaded_file) => (Rejected /\ df = load_demo_data)
        /\ origin = "upload" => df.columns = uploaded_file.header

C3_Witness ==
    /\ uploaded_file.present /\ uploaded_file.readable
    /\ Retail(uploaded_file)
    /\ Rejected

\* C4: after an upload that fails (unreadable, a required column missing, or
\* no row left after coercion) the dataset in use and the stored one are
\* exactly the demo dataset, the failure is a sidebar error notice, and the
\* page is still rendered.
C4_FailureFallsBack ==
    Fails(uploaded_file) =>
        /\ df = load_demo_data
        /\ session_df = load_demo_data
        /\ origin = "demo"
        /\ notice.kind = "error"
        /\ page \in {"Home", "Loan Forecaster", "Loan vs Bank", "Live SQL"} =>
               badge.shown

C4_Witness ==
    /\ uploaded_file.present /\ uploaded_file.readable
    /\ HasRequired(uploaded_file)
    /\ Len(uploaded_file.rows) = MaxRows
    /\ Survivors(uploaded_file) = {}
    /\ notice.text = "No valid data after cleaning."
    /\ df = load_demo_data

\* C5: the model is fitted only when the daily series (one observation per
\* distinct date) has at least MinHistory observations; with fewer the
\* forecast page ends in the insufficient-history outcome, whatever the
\* number of rows.
C5_FitNeedsHistory ==
    /\ forecast \in {"fitted", "fit_error"} =>
           Cardinality(DatesOf(df)) >= MinHistory
    /\ (page = "Sales Forecast" /\ Cardinality(DatesOf(df)) < MinHistory) =>
           forecast = "insufficient"

\* C6: on the A/B page, control < 0, variant < 0 or control + variant = 0 ends
\* in a handled invalid-input outcome with no p-value and no verdict; every
\* other input shows "Significant!" exactly when the p-value is below 0.05.
C6_InvalidInputHandled ==
    ABRendered(page, df) =>
        IF control < 0 \/ variant < 0 \/ control + variant = 0
        THEN /\ ab.outcome = "InvalidInputError"
             /\ ab.delta = ""
             /\ error = ""
        ELSE /\ ab.outcome = "pvalue"
             /\ ab.delta = "Significant!" <=> 100 * ab.num < 5 * ab.den

\* C7: after any sequence of uploads, replacements, removals and page changes
\* the dataset in use and the stored dataset are both the dataset of the
\* current upload alone (its surviving rows, in order, if it passes; the demo
\* dataset otherwise), and the page's aggregates are those of that dataset.
C7_CurrentUploadOnly ==
    /\ df = session_df
    /\ ~Passes(uploaded_file) => df = load_demo_data
    /\ Passes(uploaded_file) =>
           /\ df.columns = uploaded_file.header
           /\ Len(df.rows) = Cardinality(Survivors(uploaded_file))
           /\ \A j \in 1..Len(df.rows) :
                  \E i \in Survivors(uploaded_file) :
                      /\ Cardinality({k \in Survivors(uploaded_file) : k < i}) = j - 1
                      /\ df.rows[j] = CoercedRow(uploaded_file.rows[i])
    /\ page = "Loan Forecaster" =>
           (agg.n = Len(df.rows) /\ agg.total = TotalOf(df))
    /\ (page = "BI Dashboard" /\ error = "") =>
           (agg.n = Len(df.rows) /\ agg.total = TotalOf(df))
    /\ forecast \in {"fitted", "fit_error"} => daily = DailyOf(df)
    /\ badge.shown => badge.cols = CanonicalColumns \cap df.columns

C7_Witness ==
    /\ Passes(uploaded_file)
    /\ Len(df.rows) < Len(uploaded_file.rows)
    /\ page = "Loan Forecaster"
    /\ agg.n = Len(df.rows)

C9_NeverEmpty ==
    /\ Len(df.rows) > 0
    /\ df.columns # {}
    /\ error \notin {"date_input", "max", "idxmax"}
    /\ (page = "BI Dashboard" /\ error = "") => (agg.lo.ok /\ agg.hi.ok)

C9_Witness ==
    /\ uploaded_file.present /\ uploaded_file.readable
    /\ HasRequired(uploaded_file)
    /\ Len(uploaded_file.rows) > 0
    /\ Survivors(uploaded_file) = {}
    /\ page = "BI Dashboard"
    /\ agg.lo.ok /\ agg.n > 0

\* C10: the badge says "your CSV" only when the dataset in use was derived
\* from the uploaded file, and "demo data" whenever the dataset in use is the
\* demo dataset, also when an uploaded file failed validation.
C10_BadgeSource ==
    badge.shown =>
        /\ badge.source = "your CSV" => origin = "upload"
        /\ df = load_demo_data => badge.source = "demo data"

====
